---------------------------- MODULE Spec2Model ----------------------------
(***************************************************************************)
(* A model of the art-gallery single-page application:                     *)
(*   - the favorites store (context/FavoritesContext.tsx): the React state *)
(*     `favorites`, the load and save effects over localStorage and the    *)
(*     add / remove / query operations;                                    *)
(*   - the gallery fetch controller (pages/Gallery.tsx, three variants);   *)
(*   - the artwork detail view (pages/ArtworkDetail.tsx).                  *)
(*                                                                         *)
(* React is modelled as it schedules this code: a render produces a        *)
(* closure over the committed state, the passive effects of a commit run   *)
(* in declaration order before the next event is handled, state updates    *)
(* queued by effects are applied by the following render, and under        *)
(* <React.StrictMode> (development build) the mount effects are run a      *)
(* second time before that render.                                         *)
(***************************************************************************)
EXTENDS Integers, Sequences, FiniteSets, TLC

(***************************************************************************)
(* Bounds of the model.                                                    *)
(***************************************************************************)
\* longest favorites collection an addToFavorites call may produce
MaxFavorites == 3
\* longest well-formed collection found in storage at the first start
MaxStored == 2
\* gallery requests issued in one run, the ones of the mount included
MaxRequests == 3
\* gallery requests issued in one run against the fixed catalog
MaxPagingRequests == 5
\* detail requests issued in one run, the ones of the mount included
MaxDetailRequests == 4
\* most records in one page of a catalog response
MaxPageLen == 2
\* largest total_pages a catalog response reports
MaxTotalPages == 2

(***************************************************************************)
(* Artwork records (types.ts): the identifier and the image reference.     *)
(***************************************************************************)
ArtworkIds == {7, 42}

NoImage == "null"

ImageIds == {"img", NoImage}

Artwork == [id : ArtworkIds, image_id : ImageIds]

(***************************************************************************)
(* JavaScript values the favorites state can hold: an array of artwork     *)
(* records, null, or the empty object.                                     *)
(***************************************************************************)
JsArray(items) == [tag |-> "array", items |-> items]

JsNull == [tag |-> "null", items |-> <<>>]

JsObject == [tag |-> "object", items |-> <<>>]

IsArray(v) == v.tag = "array"

(***************************************************************************)
(* JSON text is a sequence of tokens.  JSON.stringify writes an array as   *)
(* "[" obj "," obj ... "]" and an artwork as "{" id image_id "}".          *)
(***************************************************************************)
MaxNumber == 50

NumberToken(n) == ToString(n)

IsNumberToken(t) == \E n \in 0..MaxNumber : ToString(n) = t

TokenNumber(t) == CHOOSE n \in 0..MaxNumber : ToString(n) = t

StringifyArtwork(a) == <<"{", NumberToken(a.id), a.image_id, "}">>

RECURSIVE StringifyItems(_)
StringifyItems(items) ==
    IF items = <<>> THEN <<>>
    ELSE IF Len(items) = 1 THEN StringifyArtwork(items[1])
    ELSE StringifyArtwork(items[1]) \o <<",">> \o StringifyItems(Tail(items))

JSONstringify(v) ==
    IF v.tag = "null" THEN <<"null">>
    ELSE IF v.tag = "object" THEN <<"{", "}">>
    ELSE <<"[">> \o StringifyItems(v.items) \o <<"]">>

(***************************************************************************)
(* JSON.parse: [ok |-> TRUE, value |-> v], or ok = FALSE for a SyntaxError.*)
(***************************************************************************)
ParseFailure == [ok |-> FALSE, value |-> JsNull]

\* the elements between "[" and "]": a sequence of records, or a failure
RECURSIVE ParseItems(_)
ParseItems(t) ==
    IF t = <<>> THEN [ok |-> TRUE, items |-> <<>>]
    ELSE IF Len(t) < 4 THEN [ok |-> FALSE, items |-> <<>>]
    ELSE IF ~(t[1] = "{" /\ IsNumberToken(t[2]) /\ t[3] \in ImageIds /\ t[4] = "}")
         THEN [ok |-> FALSE, items |-> <<>>]
    ELSE LET a == [id |-> TokenNumber(t[2]), image_id |-> t[3]]
         IN  IF Len(t) = 4 THEN [ok |-> TRUE, items |-> <<a>>]
             ELSE IF t[5] # "," \/ Len(t) = 5 THEN [ok |-> FALSE, items |-> <<>>]
             ELSE LET rest == ParseItems(SubSeq(t, 6, Len(t)))
                  IN  [ok |-> rest.ok,
                       items |-> IF rest.ok THEN <<a>> \o rest.items ELSE <<>>]

JSONparse(t) ==
    IF t = <<"null">> THEN [ok |-> TRUE, value |-> JsNull]
    ELSE IF t = <<"{", "}">> THEN [ok |-> TRUE, value |-> JsObject]
    ELSE IF Len(t) >= 2 /\ t[1] = "[" /\ t[Len(t)] = "]"
         THEN LET r == ParseItems(SubSeq(t, 2, Len(t) - 1))
              IN  IF r.ok THEN [ok |-> TRUE, value |-> JsArray(r.items)]
                  ELSE ParseFailure
    ELSE ParseFailure

(***************************************************************************)
(* localStorage entry 'artGalleryFavorites': absent, or a string.          *)
(***************************************************************************)
NoItem == [present |-> FALSE, text |-> <<>>]

Item(text) == [present |-> TRUE, text |-> text]

\* duplicate-free lists of artworks of length at most n
DistinctLists(n) ==
    { s \in UNION { [1..k -> Artwork] : k \in 0..n } :
        \A i, j \in DOMAIN s : i # j => s[i].id # s[j].id }

\* stored strings that are the serialization of a collection
WellFormedTexts == { JSONstringify(JsArray(s)) : s \in DistinctLists(MaxStored) }

\* stored strings JSON.parse rejects
SyntaxErrorTexts == { <<"[", "{">>, <<"[", "{", "7", "img", "}", ",", "]">>, <<"oops">> }

\* stored strings JSON.parse accepts although they hold no array
NonArrayTexts == { <<"null">>, <<"{", "}">> }

InitialItems ==
    {NoItem, Item(<<>>)}
        \cup { Item(t) : t \in WellFormedTexts \cup SyntaxErrorTexts \cup NonArrayTexts }

VARIABLES
    favorites,    \* the committed React state of FavoritesProvider
    storage,      \* the localStorage entry
    effects,      \* passive effects still to run for the last commit
    updates,      \* state updates queued by setFavorites, not yet rendered
    crashed,      \* a render threw: the tree is unmounted
    strictMode,   \* the app is rendered under <React.StrictMode> in development
    lastOp,       \* the most recent store operation
    prev,         \* favorites and storage as they were before lastOp
    wellFormedStart  \* the storage of the first start was absent or a collection

favVars ==
    <<favorites, storage, effects, updates, crashed, strictMode, lastOp, prev,
      wellFormedStart>>

VARIABLES
    variant,      \* which of the three Gallery components of Gallery.tsx runs
    artworks,     \* Gallery state: the result list
    loading,      \* Gallery state: the loading flag
    error,        \* Gallery state: the error message ('' for none; variant 1)
    searchTerm,   \* Gallery state: the search term
    page,         \* Gallery state: the page cursor
    hasMore,      \* Gallery state: the "more pages remain" flag
    inflight,     \* requests awaiting their response
    issued,       \* number of requests issued so far
    lastEvent,    \* the last step: a request issued, answered or failed
    cap,          \* how many requests the run may issue
    streak        \* pages loaded by an unbroken run: page 1 alone, then load mores

galleryVars ==
    <<variant, artworks, loading, error, searchTerm, page, hasMore, inflight,
      issued, lastEvent, cap, streak>>

VARIABLES
    routeId,        \* ArtworkDetail: the id parameter of the current route
    detailArtwork,  \* ArtworkDetail state: artwork
    detailLoading,  \* ArtworkDetail state: loading
    detailInflight, \* detail requests sent and not yet answered
    detailIssued,   \* number of detail requests sent so far
    detailEvent     \* the last step of the detail view

detailVars ==
    <<routeId, detailArtwork, detailLoading, detailInflight, detailIssued,
      detailEvent>>

vars == <<favVars, galleryVars, detailVars>>

NoArtwork == [id |-> 0, image_id |-> NoImage]

Op(name, artwork) == [op |-> name, art |-> artwork]

Snapshot == [favorites |-> favorites, storage |-> storage]

\* the effects of the mount commit: load then save, twice under StrictMode
MountEffects(strict) ==
    IF strict THEN <<"load", "save", "load", "save">> ELSE <<"load", "save">>

\* useState<Artwork[]>([])
InitialFavorites == JsArray(<<>>)

FavInit ==
    /\ favorites = InitialFavorites
    /\ storage \in InitialItems
    /\ strictMode \in BOOLEAN
    /\ effects = MountEffects(strictMode)
    /\ updates = <<>>
    /\ crashed = FALSE
    /\ lastOp = Op("init", NoArtwork)
    /\ prev = [favorites |-> InitialFavorites, storage |-> storage]
    /\ wellFormedStart = (storage = NoItem \/ storage.text \in WellFormedTexts)

\* no effect is pending, no update is queued and the tree is mounted
Ready == effects = <<>> /\ updates = <<>> /\ ~crashed

(***************************************************************************)
(* The load effect: read the entry, parse it when it is truthy, queue      *)
(* setFavorites(parsed) or, on a SyntaxError, setFavorites([]).            *)
(***************************************************************************)
LoadedValue(item) ==
    LET r == JSONparse(item.text)
    IN  IF r.ok THEN r.value ELSE JsArray(<<>>)

\* if (savedFavorites): null and the empty string are falsy
Truthy(item) == item.present /\ item.text # <<>>

LoadEffect ==
    /\ ~crashed
    /\ effects # <<>> /\ Head(effects) = "load"
    /\ effects' = Tail(effects)
    /\ updates' = IF Truthy(storage) THEN Append(updates, LoadedValue(storage))
                  ELSE updates
    /\ UNCHANGED <<favorites, storage, crashed, strictMode, lastOp, prev, wellFormedStart, galleryVars, detailVars>>

(***************************************************************************)
(* The save effect: setItem(key, JSON.stringify(favorites)), favorites     *)
(* being the state of the commit the effect belongs to.                    *)
(***************************************************************************)
\* faulty variant: the entry is written only while the collection is not empty
SavedItemUnlessEmpty(fav, old) ==
    IF fav.items = <<>> THEN old ELSE Item(JSONstringify(fav))

SavedItem(fav, old) == Item(JSONstringify(fav))

SaveEffect ==
    /\ ~crashed
    /\ effects # <<>> /\ Head(effects) = "save"
    /\ effects' = Tail(effects)
    /\ storage' = SavedItem(favorites, storage)
    /\ UNCHANGED <<favorites, updates, crashed, strictMode, lastOp, prev, wellFormedStart, galleryVars, detailVars>>

(***************************************************************************)
(* The render that applies the updates queued by the mount effects.  The   *)
(* last setFavorites(value) wins.  Navigation reads favorites.length in    *)
(* every render, which throws when the state is null.                      *)
(***************************************************************************)
RenderThrows(v) == v.tag = "null"

Render ==
    /\ ~crashed
    /\ effects = <<>> /\ updates # <<>>
    /\ LET v == updates[Len(updates)]
       IN  IF RenderThrows(v)
           THEN /\ crashed' = TRUE
                /\ UNCHANGED <<favorites, effects>>
           ELSE /\ favorites' = v
                /\ effects' = <<"save">>
                /\ UNCHANGED crashed
    /\ updates' = <<>>
    /\ UNCHANGED <<storage, strictMode, lastOp, prev, wellFormedStart, galleryVars, detailVars>>

(***************************************************************************)
(* The store operations.  Each is called from an event handler with the    *)
(* tree ready; React renders the update before the next event and          *)
(* schedules the save effect of that commit.                               *)
(***************************************************************************)
\* prev => [...prev, artwork]
AddUpdater(items, artwork) == items \o <<artwork>>

\* faulty variant: the filter keeps the matching entries (=== for !==)
RemoveInverted(items, artworkId) ==
    SelectSeq(items, LAMBDA a : a.id = artworkId)

\* faulty variant: splice(findIndex(...), 1), which removes the first match only and,
\* with no match (index -1), the last entry
RemoveSplice(items, artworkId) ==
    IF items = <<>> THEN <<>>
    ELSE IF \E k \in DOMAIN items : items[k].id = artworkId
         THEN LET k == CHOOSE k \in DOMAIN items :
                         /\ items[k].id = artworkId
                         /\ \A j \in 1..(k - 1) : items[j].id # artworkId
              IN  SubSeq(items, 1, k - 1) \o SubSeq(items, k + 1, Len(items))
         ELSE SubSeq(items, 1, Len(items) - 1)

\* faulty variant: the filter stops at the first match and keeps what follows it
RemoveFirstMatch(items, artworkId) ==
    IF \E k \in DOMAIN items : items[k].id = artworkId
    THEN LET k == CHOOSE k \in DOMAIN items :
                    /\ items[k].id = artworkId
                    /\ \A j \in 1..(k - 1) : items[j].id # artworkId
         IN  SubSeq(items, 1, k - 1) \o SubSeq(items, k + 1, Len(items))
    ELSE items

\* prev => prev.filter(artwork => artwork.id !== artworkId)
RECURSIVE RemoveUpdater(_, _)
RemoveUpdater(items, artworkId) ==
    IF items = <<>> THEN <<>>
    ELSE IF items[1].id # artworkId
         THEN <<items[1]>> \o RemoveUpdater(Tail(items), artworkId)
         ELSE RemoveUpdater(Tail(items), artworkId)

\* favorites.some(artwork => artwork.id === artworkId)
isFavorite(artworkId) ==
    \E k \in DOMAIN favorites.items : favorites.items[k].id = artworkId

addToFavorites(artwork) ==
    /\ Ready
    /\ Len(favorites.items) < MaxFavorites
    /\ lastOp' = Op("add", artwork)
    /\ prev' = Snapshot
    /\ IF IsArray(favorites)
       THEN /\ favorites' = JsArray(AddUpdater(favorites.items, artwork))
            /\ effects' = <<"save">>
            /\ UNCHANGED crashed
       ELSE \* spreading a value that is not iterable throws in the render
            /\ crashed' = TRUE
            /\ UNCHANGED <<favorites, effects>>
    /\ UNCHANGED <<storage, updates, strictMode, wellFormedStart, galleryVars, detailVars>>

removeFromFavorites(artworkId) ==
    /\ Ready
    /\ lastOp' = Op("remove", [id |-> artworkId, image_id |-> NoImage])
    /\ prev' = Snapshot
    /\ IF IsArray(favorites)
       THEN /\ favorites' = JsArray(RemoveUpdater(favorites.items, artworkId))
            /\ effects' = <<"save">>
            /\ UNCHANGED crashed
       ELSE \* prev.filter is not a function
            /\ crashed' = TRUE
            /\ UNCHANGED <<favorites, effects>>
    /\ UNCHANGED <<storage, updates, strictMode, wellFormedStart, galleryVars, detailVars>>

(***************************************************************************)
(* A page reload: FavoritesProvider is constructed again over the storage  *)
(* the previous session left.                                              *)
(***************************************************************************)
Reload ==
    /\ Ready \/ crashed
    /\ lastOp' = Op("reload", NoArtwork)
    /\ prev' = Snapshot
    /\ favorites' = InitialFavorites
    /\ effects' = MountEffects(strictMode)
    /\ updates' = <<>>
    /\ crashed' = FALSE
    /\ UNCHANGED <<storage, strictMode, wellFormedStart, galleryVars, detailVars>>

FavNext ==
    \/ LoadEffect
    \/ SaveEffect
    \/ Render
    \/ \E a \in Artwork : addToFavorites(a)
    \/ \E i \in ArtworkIds : removeFromFavorites(i)
    \/ Reload

(***************************************************************************)
(* The gallery fetch controller (pages/Gallery.tsx).  The file holds three *)
(* Gallery components; `variant` says which one is running:                *)
(*   1: lines 67-338   (append flag, error state, no image filter)         *)
(*   2: lines 370-562  (axios, image filter, errors only logged)           *)
(*   3: lines 630-799  (fetch, image filter, first-page failure clears)    *)
(***************************************************************************)
Variants == {1, 2, 3}

Terms == {"", "monet"}

\* a request: fetchArtworks(query, pageNum, append); variants 2 and 3 take no
\* append argument (the field is then pageNum # 1, which is what they test)
Request(rid, query, pageNum, append) ==
    [rid |-> rid, query |-> query, pageNum |-> pageNum, append |-> append]

\* a record of the page pageNum of the results of query, at position k
CatalogRecord(query, pageNum, k, image) ==
    [id |-> pageNum * 10 + k, image_id |-> image, query |-> query, page |-> pageNum]

\* the data arrays the catalog may answer a request with: up to MaxPageLen
\* records, all with an image or the first one without
PageData(query, pageNum) ==
    { [k \in 1..n |-> CatalogRecord(query, pageNum, k,
                          IF k = 1 /\ ~firstHasImage THEN NoImage ELSE "img")] :
        n \in 0..MaxPageLen, firstHasImage \in BOOLEAN }

\* the responses to a request: data and pagination metadata
Responses(r) ==
    [data : PageData(r.query, r.pageNum),
     current_page : {r.pageNum},
     total_pages : 0..MaxTotalPages]

NoRequest == Request(0, "", 0, FALSE)

\* the last step: the request it issued, answered or failed
Event(kind, r) == [kind |-> kind, req |-> r]

NoEvent == Event("none", NoRequest)

\* requests issued by the effects of the mount: the initial-load effect and
\* the search effect (variants 1 and 3), the search effect alone (variant 2)
MountRequests(v) ==
    IF v = 2 THEN {Request(1, "", 1, FALSE)}
    ELSE {Request(1, "", 1, FALSE), Request(2, "", 1, FALSE)}

GalleryMount(c) ==
    /\ variant \in Variants
    /\ cap = c
    /\ streak = 0
    /\ artworks = <<>>
    /\ loading = TRUE
    /\ error = ""
    /\ searchTerm = ""
    /\ page = 1
    /\ hasMore = TRUE
    /\ inflight = MountRequests(variant)
    /\ issued = Cardinality(MountRequests(variant))
    /\ lastEvent = NoEvent

GalleryInit == GalleryMount(MaxRequests)

\* faulty variant: the filter keeps every record
WithImageKeepingAll(data) == data

\* data.data.filter(artwork => artwork.image_id)
WithImage(data) == SelectSeq(data, LAMBDA a : a.image_id # NoImage)

\* the records of a response that the variant merges into the result list
Merged(v, data) == IF v = 1 THEN data ELSE WithImage(data)

\* whether the response to r is appended: the append argument in variant 1,
\* pageNum !== 1 in variants 2 and 3
Appends(v, r) == IF v = 1 THEN r.append ELSE r.pageNum # 1

\* faulty variant: the response always replaces the list
MergedListReplacing(v, list, r, data) == Merged(v, data)

\* the result list after a successful response to request r
MergedList(v, list, r, data) ==
    IF Appends(v, r) THEN list \o Merged(v, data) ELSE Merged(v, data)

\* the synchronous part of fetchArtworks: setLoading(true), setError('') in
\* variant 1, and the request leaves
Issue(query, pageNum, append) ==
    /\ issued < cap
    /\ issued' = issued + 1
    /\ inflight' = inflight \cup {Request(issued + 1, query, pageNum, append)}
    /\ loading' = TRUE
    /\ error' = ""
    /\ lastEvent' = Event("issue", Request(issued + 1, query, pageNum, append))

\* faulty variant: the last page still counts as having more
HasMorePagesInclusive(resp) == resp.current_page <= resp.total_pages

\* setHasMore(data.pagination.current_page < data.pagination.total_pages)
HasMorePages(resp) == resp.current_page < resp.total_pages

\* the unbroken run after a success: a page-1 fetch for the current term that
\* resolves with nothing else in flight starts one, a load more issued and
\* answered with nothing else in flight extends it, anything else breaks it
StreakAfterSuccess(r) ==
    IF inflight # {r} THEN 0
    ELSE IF ~Appends(variant, r)
         THEN (IF r.query = searchTerm /\ r.pageNum = 1 THEN 1 ELSE 0)
         ELSE (IF streak >= 1 THEN streak + 1 ELSE 0)

\* faulty variant: a response is applied only when its request is the one
\* issued last (a request-generation counter)
fetchArtworksSuccessLatestOnly(r, resp) ==
    /\ r \in inflight
    /\ inflight' = inflight \ {r}
    /\ artworks' = IF r.rid = issued
                      THEN MergedList(variant, artworks, r, resp.data)
                      ELSE artworks
    /\ hasMore' = IF r.rid = issued THEN HasMorePages(resp) ELSE hasMore
    /\ loading' = FALSE
    /\ lastEvent' = Event("success", r)
    /\ streak' = StreakAfterSuccess(r)
    /\ UNCHANGED <<variant, cap, error, searchTerm, page, issued, favVars, detailVars>>

\* the response arrives: the result list and hasMore are set, loading cleared
fetchArtworksSuccess(r, resp) ==
    /\ r \in inflight
    /\ inflight' = inflight \ {r}
    /\ artworks' = MergedList(variant, artworks, r, resp.data)
    /\ hasMore' = HasMorePages(resp)
    /\ loading' = FALSE
    /\ lastEvent' = Event("success", r)
    /\ streak' = StreakAfterSuccess(r)
    /\ UNCHANGED <<variant, cap, error, searchTerm, page, issued, favVars, detailVars>>

\* the result list after a failed request r
FailedList(v, list, r) == IF v = 3 /\ r.pageNum = 1 THEN <<>> ELSE list

\* the request fails (transport error or non-success status)
fetchArtworksFailure(r) ==
    /\ r \in inflight
    /\ inflight' = inflight \ {r}
    /\ artworks' = FailedList(variant, artworks, r)
    /\ error' = IF variant = 1 THEN "API request failed" ELSE error
    /\ loading' = FALSE
    /\ lastEvent' = Event("failure", r)
    /\ streak' = 0
    /\ UNCHANGED <<variant, cap, hasMore, searchTerm, page, issued, favVars, detailVars>>

\* faulty variant: the search effect fetches page 1 but leaves the cursor
handleSearchChangeKeepingCursor(term) ==
    /\ term # searchTerm
    /\ searchTerm' = term
    /\ Issue(term, 1, FALSE)
    /\ streak' = 0
    /\ UNCHANGED <<variant, cap, artworks, hasMore, page, favVars, detailVars>>

\* typing in the search box: setSearchTerm, then the search effect resets
\* the cursor and fetches page 1 of the new term
handleSearchChange(term) ==
    /\ term # searchTerm
    /\ searchTerm' = term
    /\ page' = 1
    /\ Issue(term, 1, FALSE)
    /\ streak' = 0
    /\ UNCHANGED <<variant, cap, artworks, hasMore, favVars, detailVars>>

\* the Load More button is rendered with a non-empty list (and, in variant 1,
\* no error) while hasMore, and is disabled while loading
LoadMoreEnabled ==
    /\ artworks # <<>>
    /\ hasMore
    /\ ~loading
    /\ variant = 1 => error = ""

handleLoadMore ==
    /\ LoadMoreEnabled
    /\ page' = page + 1
    /\ Issue(searchTerm, page + 1, TRUE)
    /\ streak' = IF inflight = {} THEN streak ELSE 0
    /\ UNCHANGED <<variant, cap, artworks, hasMore, searchTerm, favVars, detailVars>>

\* variant 1: Try Again, shown instead of the list while error is set
\* variant 3: Retry Loading Artworks, shown with an empty list and not loading
retry ==
    /\ \/ variant = 1 /\ error # "" /\ Issue(searchTerm, 1, FALSE)
       \/ variant = 3 /\ ~loading /\ artworks = <<>> /\ Issue("", 1, FALSE)
    /\ streak' = 0
    /\ UNCHANGED <<variant, cap, artworks, hasMore, searchTerm, page, favVars, detailVars>>

\* variants 2 and 3: submitting the search form
handleSearch ==
    /\ variant \in {2, 3}
    /\ page' = 1
    /\ Issue(searchTerm, 1, FALSE)
    /\ streak' = 0
    /\ UNCHANGED <<variant, cap, artworks, hasMore, searchTerm, favVars, detailVars>>

\* variant 2: the refresh button clears the term, resets the cursor and
\* fetches page 1; when the term was not empty the search effect then runs
\* and fetches page 1 once more
refreshGallery ==
    /\ variant = 2
    /\ LET n == IF searchTerm # "" THEN 2 ELSE 1
       IN  /\ issued + n <= cap
           /\ issued' = issued + n
           /\ inflight' = inflight \cup { Request(issued + k, "", 1, FALSE) : k \in 1..n }
           /\ lastEvent' = Event("issue", Request(issued + n, "", 1, FALSE))
    /\ loading' = TRUE
    /\ error' = ""
    /\ searchTerm' = ""
    /\ page' = 1
    /\ streak' = 0
    /\ UNCHANGED <<variant, cap, artworks, hasMore, favVars, detailVars>>

GalleryNext ==
    \/ \E r \in inflight : \E resp \in Responses(r) : fetchArtworksSuccess(r, resp)
    \/ \E r \in inflight : fetchArtworksFailure(r)
    \/ \E t \in Terms : handleSearchChange(t)
    \/ handleLoadMore
    \/ retry
    \/ handleSearch
    \/ refreshGallery

\* the fixed catalog: every page of every query is full, its first record
\* without an image, and there are as many pages as requests
CatalogPage(query, pageNum) ==
    [k \in 1..MaxPageLen |->
        CatalogRecord(query, pageNum, k, IF k = 1 THEN NoImage ELSE "img")]

CatalogResponses(r) ==
    [data : {CatalogPage(r.query, r.pageNum)},
     current_page : {r.pageNum},
     total_pages : {MaxPagingRequests}]

PagingNext ==
    \/ \E r \in inflight : \E resp \in CatalogResponses(r) : fetchArtworksSuccess(r, resp)
    \/ \E r \in inflight : fetchArtworksFailure(r)
    \/ \E t \in Terms : handleSearchChange(t)
    \/ handleLoadMore
    \/ retry
    \/ handleSearch
    \/ refreshGallery

\* the gallery before it is mounted
GalleryIdle ==
    /\ variant = 1
    /\ artworks = <<>>
    /\ loading = FALSE
    /\ error = ""
    /\ searchTerm = ""
    /\ page = 1
    /\ hasMore = TRUE
    /\ inflight = {}
    /\ issued = 0
    /\ lastEvent = NoEvent
    /\ cap = MaxRequests
    /\ streak = 0

\* the favorites store with nothing stored and nothing pending
FavIdle ==
    /\ favorites = InitialFavorites
    /\ storage = Item(JSONstringify(InitialFavorites))
    /\ strictMode = FALSE
    /\ effects = <<>>
    /\ updates = <<>>
    /\ crashed = FALSE
    /\ lastOp = Op("init", NoArtwork)
    /\ prev = [favorites |-> InitialFavorites, storage |-> NoItem]
    /\ wellFormedStart = TRUE

(***************************************************************************)
(* The artwork detail view (pages/ArtworkDetail.tsx), mounted by the route *)
(* /artwork/:id and kept mounted when only the id parameter changes.       *)
(***************************************************************************)
\* a detail request: axios.get(.../artworks/${id})
DetailRequest(rid, id) == [rid |-> rid, id |-> id]

\* the artwork the API holds for an identifier
DetailRecord(id) == [id |-> id, image_id |-> "img"]

\* response.data.data: the artwork asked for, or nothing
DetailResponses(r) == {DetailRecord(r.id), NoArtwork}

DetailEvent(kind, r) == [kind |-> kind, req |-> r]

NoDetailRequest == DetailRequest(0, 0)

\* the requests sent by the fetch effect of the mount: one, or two when
\* StrictMode runs the effect twice
DetailMountRequests(id, strict) ==
    IF strict THEN {DetailRequest(1, id), DetailRequest(2, id)}
    ELSE {DetailRequest(1, id)}

DetailInit ==
    /\ routeId \in ArtworkIds
    /\ detailArtwork = NoArtwork
    /\ detailLoading = TRUE
    /\ \E strict \in BOOLEAN :
          /\ detailInflight = DetailMountRequests(routeId, strict)
          /\ detailIssued = Cardinality(DetailMountRequests(routeId, strict))
    /\ detailEvent = DetailEvent("none", NoDetailRequest)

\* the detail view before it is mounted
DetailIdle ==
    /\ routeId = 0
    /\ detailArtwork = NoArtwork
    /\ detailLoading = TRUE
    /\ detailInflight = {}
    /\ detailIssued = 0
    /\ detailEvent = DetailEvent("none", NoDetailRequest)

\* the artwork held after a failed lookup: the catch block leaves it alone
ArtworkAfterFailure(held) == held

\* the response arrives: setArtwork(response.data.data), setLoading(false)
fetchArtworkDetailSuccess(r, data) ==
    /\ r \in detailInflight
    /\ detailInflight' = detailInflight \ {r}
    /\ detailArtwork' = data
    /\ detailLoading' = FALSE
    /\ detailEvent' = DetailEvent(IF data = NoArtwork THEN "nothing" ELSE "success", r)
    /\ UNCHANGED <<routeId, detailIssued, favVars, galleryVars>>

\* the request fails: console.error, toast.error, setLoading(false)
fetchArtworkDetailFailure(r) ==
    /\ r \in detailInflight
    /\ detailInflight' = detailInflight \ {r}
    /\ detailArtwork' = ArtworkAfterFailure(detailArtwork)
    /\ detailLoading' = FALSE
    /\ detailEvent' = DetailEvent("failure", r)
    /\ UNCHANGED <<routeId, detailIssued, favVars, galleryVars>>

\* the id parameter changes while the view stays mounted: the effect runs
\* again, setLoading(true) and a request for the new id leaves
routeChange(id) ==
    /\ id # routeId
    /\ detailIssued < MaxDetailRequests
    /\ routeId' = id
    /\ detailLoading' = TRUE
    /\ detailIssued' = detailIssued + 1
    /\ detailInflight' = detailInflight \cup {DetailRequest(detailIssued + 1, id)}
    /\ detailEvent' = DetailEvent("issue", DetailRequest(detailIssued + 1, id))
    /\ UNCHANGED <<detailArtwork, favVars, galleryVars>>

DetailNext ==
    \/ \E r \in detailInflight : \E data \in DetailResponses(r) :
          fetchArtworkDetailSuccess(r, data)
    \/ \E r \in detailInflight : fetchArtworkDetailFailure(r)
    \/ \E id \in ArtworkIds : routeChange(id)

(***************************************************************************)
(* The favorite buttons: the heart button of an ArtworkCard on the gallery *)
(* and favorites pages, and the button of the artwork detail view.  Both   *)
(* handlers read the membership of the committed collection and call the   *)
(* store; a click is a discrete event, so its update is rendered before    *)
(* the next click is handled.                                              *)
(***************************************************************************)
\* navigation to /artwork/:id mounts the detail view, whose effect issues
\* the lookup (twice under StrictMode)
openDetail(id) ==
    /\ Ready
    /\ routeId = 0
    /\ routeId' = id
    /\ detailArtwork' = NoArtwork
    /\ detailLoading' = TRUE
    /\ detailInflight' = DetailMountRequests(id, strictMode)
    /\ detailIssued' = Cardinality(DetailMountRequests(id, strictMode))
    /\ detailEvent' = DetailEvent("none", NoDetailRequest)
    /\ UNCHANGED <<favVars, galleryVars>>

\* navigation back to a page of cards unmounts the detail view; responses
\* still in flight find no component
closeDetail ==
    /\ Ready
    /\ routeId # 0
    /\ routeId' = 0
    /\ detailArtwork' = NoArtwork
    /\ detailLoading' = TRUE
    /\ detailInflight' = {}
    /\ detailIssued' = 0
    /\ detailEvent' = DetailEvent("none", NoDetailRequest)
    /\ UNCHANGED <<favVars, galleryVars>>

ArtworkCard_handleFavoriteClickAlwaysAdds(artwork) ==
    /\ routeId = 0
    /\ addToFavorites(artwork)

\* ArtworkCard.handleFavoriteClick for the card showing the artwork
ArtworkCard_handleFavoriteClick(artwork) ==
    /\ routeId = 0
    /\ IF isFavorite(artwork.id)
       THEN removeFromFavorites(artwork.id)
       ELSE addToFavorites(artwork)

ArtworkDetail_handleFavoriteClickAlwaysRemoves ==
    /\ routeId # 0
    /\ ~detailLoading
    /\ detailArtwork # NoArtwork
    /\ removeFromFavorites(detailArtwork.id)

\* ArtworkDetailPage.handleFavoriteClick: the button exists once the view
\* holds an artwork and is not loading
ArtworkDetail_handleFavoriteClick ==
    /\ routeId # 0
    /\ ~detailLoading
    /\ detailArtwork # NoArtwork
    /\ IF isFavorite(detailArtwork.id)
       THEN removeFromFavorites(detailArtwork.id)
       ELSE addToFavorites(detailArtwork)

\* collections a stored text can hold, entries with equal ids included
StoredLists == UNION { [1..k -> Artwork] : k \in 0..MaxStored }

\* the store after its initialization has loaded a stored collection; under
\* StrictMode the initialization ends with the empty collection
FavLoaded ==
    /\ strictMode \in BOOLEAN
    /\ \E list \in StoredLists :
          /\ strictMode => list = <<>>
          /\ favorites = JsArray(list)
          /\ storage = Item(JSONstringify(JsArray(list)))
          /\ wellFormedStart = (list \in DistinctLists(MaxStored))
    /\ effects = <<>>
    /\ updates = <<>>
    /\ crashed = FALSE
    /\ lastOp = Op("init", NoArtwork)
    /\ prev = [favorites |-> InitialFavorites, storage |-> storage]

ButtonsNext ==
    \/ SaveEffect
    \/ \E a \in Artwork : ArtworkCard_handleFavoriteClick(a)
    \/ ArtworkDetail_handleFavoriteClick
    \/ \E id \in ArtworkIds : openDetail(id)
    \/ closeDetail
    \/ \E r \in detailInflight : \E data \in DetailResponses(r) :
          fetchArtworkDetailSuccess(r, data)
    \/ \E r \in detailInflight : fetchArtworkDetailFailure(r)
    \/ \E id \in ArtworkIds : routeChange(id)

Init == FavInit /\ GalleryIdle /\ DetailIdle

\* the favorites store
Spec == Init /\ [][FavNext]_vars

GalleryStart == GalleryInit /\ FavIdle /\ DetailIdle

\* the gallery fetch controller
GallerySpec == GalleryStart /\ [][GalleryNext]_vars

PagingStart == GalleryMount(MaxPagingRequests) /\ FavIdle /\ DetailIdle

\* the gallery fetch controller over the fixed catalog, for longer runs
PagingSpec == PagingStart /\ [][PagingNext]_vars

DetailStart == DetailInit /\ FavIdle /\ GalleryIdle

\* the artwork detail view
DetailSpec == DetailStart /\ [][DetailNext]_vars

ButtonsStart == FavLoaded /\ GalleryIdle /\ DetailIdle

\* the favorite buttons over a loaded store
ButtonsSpec == ButtonsStart /\ [][ButtonsNext]_vars

(***************************************************************************)
(* Properties of the favorites store.                                      *)
(***************************************************************************)
HasId(items, id) == \E k \in DOMAIN items : items[k].id = id

\* the store has finished an initialization and nothing was called since
Initialized == lastOp.op \in {"init", "reload"} /\ effects = <<>> /\ updates = <<>>

\* the text deserializes into a list of artwork records
IsCollectionText(t) == JSONparse(t).ok /\ IsArray(JSONparse(t).value)

\* C1 (as claimed): starting from well-formed storage, once a reload of the
\* persisted store has completed, the favorites collection equals the
\* in-memory collection (same records, same order) before the reload.
C1_RoundTrip ==
    (Ready /\ lastOp.op = "reload" /\ wellFormedStart)
        => favorites = prev.favorites

\* C2 (as claimed): no two entries of the favorites collection have the
\* same identifier.
C2_NoDuplicateIds ==
    IsArray(favorites) =>
        \A i, j \in DOMAIN favorites.items :
            i # j => favorites.items[i].id # favorites.items[j].id

\* C3: isFavorite(id) is true after addToFavorites(artwork) with
\* artwork.id = id and false after removeFromFavorites(id), for every
\* collection, also one holding several entries with that id.
C3_IsFavoriteAfterAddRemove ==
    /\ (lastOp.op = "add" /\ IsArray(prev.favorites)) => isFavorite(lastOp.art.id)
    /\ (lastOp.op = "remove" /\ IsArray(prev.favorites)) => ~isFavorite(lastOp.art.id)

\* witness of C3: a remove of an id the collection held twice has run
C3_Witness ==
    /\ lastOp.op = "remove"
    /\ \E i, j \in DOMAIN prev.favorites.items :
          /\ i # j
          /\ prev.favorites.items[i].id = lastOp.art.id
          /\ prev.favorites.items[j].id = lastOp.art.id
    /\ ~isFavorite(lastOp.art.id)

\* C4: removeFromFavorites(id) for an id matching no entry leaves the
\* collection (records and order) unchanged and raises no error.
C4_RemoveAbsentUnchanged ==
    (/\ lastOp.op = "remove"
     /\ IsArray(prev.favorites)
     /\ ~HasId(prev.favorites.items, lastOp.art.id))
        => (favorites = prev.favorites /\ ~crashed)

\* witness of C4: a remove of an absent id from a non-empty collection
C4_Witness ==
    /\ lastOp.op = "remove"
    /\ IsArray(prev.favorites)
    /\ prev.favorites.items # <<>>
    /\ ~HasId(prev.favorites.items, lastOp.art.id)
    /\ favorites = prev.favorites

\* C5 (as claimed): addToFavorites(artwork) appends exactly the given
\* artwork at the end and leaves the earlier entries as they were; and a
\* collection of exactly one entry is, after a reload from storage, still
\* exactly one entry with that id.
C5_AppendAndReload ==
    /\ (lastOp.op = "add" /\ IsArray(prev.favorites)) =>
          /\ Len(favorites.items) = Len(prev.favorites.items) + 1
          /\ favorites.items[Len(favorites.items)] = lastOp.art
          /\ \A k \in DOMAIN prev.favorites.items :
                favorites.items[k] = prev.favorites.items[k]
    /\ (/\ Ready /\ lastOp.op = "reload" /\ wellFormedStart
        /\ Len(prev.favorites.items) = 1) =>
          /\ Len(favorites.items) = 1
          /\ favorites.items[1].id = prev.favorites.items[1].id

\* the indices of the entries a remove of id must keep
KeptIndices(items, id) == { k \in DOMAIN items : items[k].id # id }

\* C6: removeFromFavorites(id) removes every entry whose identifier is id
\* and keeps every other entry, in its original relative order.
C6_RemoveAllMatching ==
    (lastOp.op = "remove" /\ IsArray(prev.favorites)) =>
        LET old == prev.favorites.items
            new == favorites.items
            kept == KeptIndices(old, lastOp.art.id)
        IN  /\ ~HasId(new, lastOp.art.id)
            /\ Len(new) = Cardinality(kept)
            /\ \A k \in kept :
                  new[Cardinality({ j \in kept : j <= k })] = old[k]

\* witness of C6: a remove that dropped two entries and kept one between
C6_Witness ==
    /\ lastOp.op = "remove"
    /\ Len(prev.favorites.items) = 3
    /\ Len(favorites.items) = 1
    /\ prev.favorites.items[2] = favorites.items[1]

\* C7: whenever no persistence step is pending, the storage entry is the
\* serialization of the entire in-memory collection.
C7_StorageIsSerializedCollection ==
    (effects = <<>> /\ updates = <<>>) => storage = Item(JSONstringify(favorites))

\* witness of C7: a remove has been persisted over a different prior value
C7_Witness ==
    /\ lastOp.op = "remove"
    /\ Ready
    /\ storage # prev.storage
    /\ storage = Item(JSONstringify(favorites))

\* C8 (as claimed): initialized over an absent entry or over a string that
\* does not deserialize into a list of artwork records, the collection
\* starts empty, the stored value is replaced and nothing throws.
C8_MalformedStartsEmpty ==
    (/\ Initialized
     /\ (~prev.storage.present \/ ~IsCollectionText(prev.storage.text)))
        => /\ favorites = JsArray(<<>>)
           /\ storage = Item(JSONstringify(JsArray(<<>>)))
           /\ ~crashed

\* C9 (as claimed): initialized over a well-formed serialized collection S,
\* the in-memory collection equals S once initialization has completed,
\* also when the mount effects are run twice.
C9_InitializedFromStorage ==
    (/\ Initialized /\ ~crashed
     /\ prev.storage.present /\ IsCollectionText(prev.storage.text))
        => favorites = JSONparse(prev.storage.text).value

(***************************************************************************)
(* Properties of the gallery fetch controller.                             *)
(***************************************************************************)
HasImage(a) == a.image_id # NoImage

\* C10 (as claimed): a successful fetch issued in non-append mode makes the
\* result list exactly the response's records; one issued in append mode
\* makes it the list at that moment followed by the response's records.
C10_ResponseRecordsMerged ==
    [][\A r \in inflight \ inflight' : \A resp \in Responses(r) :
          fetchArtworksSuccess(r, resp) =>
              artworks' = IF r.append THEN artworks \o resp.data ELSE resp.data]_vars

\* C10 (amended): a successful fetch makes the result list the records the
\* variant keeps of the response (all of them in variant 1, those with an
\* image reference in variants 2 and 3), in order, preceded in append mode
\* by the list as it is when the response is applied.
C10_KeptRecordsMerged ==
    [][\A r \in inflight \ inflight' : \A resp \in Responses(r) :
          fetchArtworksSuccess(r, resp) =>
              LET base == IF r.append THEN artworks ELSE <<>>
                  kept == IF variant = 1 THEN resp.data
                          ELSE SelectSeq(resp.data, HasImage)
              IN  /\ Len(artworks') = Len(base) + Len(kept)
                  /\ \A k \in DOMAIN base : artworks'[k] = base[k]
                  /\ \A k \in DOMAIN kept : artworks'[Len(base) + k] = kept[k]]_vars

\* witness of C10: an appending fetch has succeeded, leaving the records of
\* its page after the records of page 1
C10_Witness ==
    /\ lastEvent.kind = "success"
    /\ lastEvent.req.append
    /\ Len(artworks) >= 2
    /\ artworks[1].page = 1
    /\ artworks[Len(artworks)].page = lastEvent.req.pageNum
    /\ lastEvent.req.pageNum > 1

\* the requests that left in this step
Issued == inflight' \ inflight

\* the requests that were answered or failed in this step
Resolved == inflight \ inflight'

\* C11: after every successful gallery fetch the "more pages remain" flag
\* equals (current_page < total_pages) of the response that was applied.
C11_HasMoreFromResponse ==
    [][\A r \in Resolved : \A resp \in Responses(r) :
          fetchArtworksSuccess(r, resp) =>
              hasMore' = (resp.current_page < resp.total_pages)]_vars

\* C11 witness: a response for the last page (page 2) has been applied and
\* the flag is false.
C11_Witness ==
    /\ lastEvent.kind = "success"
    /\ lastEvent.req.pageNum = 2
    /\ ~hasMore

\* C12 (as claimed): whenever a gallery fetch fails, an error message is
\* recorded and the result list is exactly what it was before the failure.
C12_FailureKeepsListRecordsError ==
    [][\A r \in Resolved :
          fetchArtworksFailure(r) => (error' # "" /\ artworks' = artworks)]_vars

\* C13 (as claimed): load more issues a request only when hasMore is true
\* and no gallery fetch is in flight, and the request is an appending fetch
\* for page cursor+1 with the current search term.
C13_LoadMoreGated ==
    [][handleLoadMore =>
          /\ hasMore
          /\ inflight = {}
          /\ \A r \in Issued :
                r.query = searchTerm /\ r.pageNum = page + 1 /\ Appends(variant, r)]_vars

C15_LastResolvedWins ==
    [][\A r \in Resolved : \A resp \in Responses(r) :
          (fetchArtworksSuccess(r, resp) /\ ~Appends(variant, r)) =>
              /\ artworks' = Merged(variant, resp.data)
              /\ hasMore' = (resp.current_page < resp.total_pages)
              /\ inflight' = inflight \ {r}]_vars

\* C15 witness (variant 1): the fetch for "monet", issued last, succeeded
\* (no error since it was issued), then an older fetch for the empty term
\* resolved last; all have resolved and the list shows the records of the
\* empty term while the search box says "monet".
C15_Witness ==
    /\ variant = 1
    /\ inflight = {}
    /\ searchTerm = "monet"
    /\ error = ""
    /\ lastEvent.kind = "success"
    /\ lastEvent.req.query = ""
    /\ lastEvent.req.rid < issued
    /\ artworks # <<>>
    /\ \A k \in DOMAIN artworks : artworks[k].query = ""

RECURSIVE ConcatPages(_, _, _)
ConcatPages(v, query, n) ==
    IF n = 0 THEN <<>>
    ELSE ConcatPages(v, query, n - 1) \o Merged(v, CatalogPage(query, n))

\* C17 (as claimed): after a successful page-1 fetch followed by k >= 1
\* successful load mores, each issued with nothing in flight and with no
\* change of the search term, the result list is the concatenation of pages
\* 1..k+1 in page order and the cursor is k+1.
C17_LoadMoreConcatenates ==
    (streak >= 2 /\ inflight = {}) =>
        /\ page = streak
        /\ artworks = ConcatPages(variant, searchTerm, streak)

\* C18 (as claimed): a retry that follows a failed gallery fetch re-issues
\* the request that failed: same query, same page number, same append mode.
C18_RetryReissuesFailedRequest ==
    [][(retry /\ lastEvent.kind = "failure") =>
          \A r \in Issued :
              /\ r.query = lastEvent.req.query
              /\ r.pageNum = lastEvent.req.pageNum
              /\ r.append = lastEvent.req.append]_vars

\* C19 (as claimed, gallery part): after every failed gallery fetch the
\* loading flag is false and the view shows an error message or the empty
\* state.
C19_FailureShownInView ==
    [][\A r \in Resolved :
          fetchArtworksFailure(r) =>
              (~loading' /\ (error' # "" \/ artworks' = <<>>))]_vars

(***************************************************************************)
(* Properties of the artwork detail view.                                  *)
(***************************************************************************)
\* the view renders "Artwork not found": not loading and no artwork held
NotFoundView == ~detailLoading /\ detailArtwork = NoArtwork

\* C20 (as claimed): whenever the lookup for the identifier of the current
\* route fails or returns nothing, the detail view is in the "not found"
\* state: no artwork held and loading false.
C20_FailedLookupShowsNotFound ==
    (/\ detailEvent.kind \in {"failure", "nothing"}
     /\ detailEvent.req.id = routeId)
        => NotFoundView

(***************************************************************************)
(* Further properties of the gallery fetch controller.                     *)
(***************************************************************************)
\* C21 (as claimed): in every reachable state in which at least one gallery
\* fetch is in flight the loading flag is true.
C21_LoadingWhileInFlight ==
    inflight # {} => loading

\* no response or failure has arrived since the mount
NothingResolvedYet == Cardinality(inflight) = issued

\* C22 (as claimed): search is debounced: a change of the search term that
\* directly follows another request of the burst, before any response has
\* arrived, sends no request of its own, so the burst sends fewer requests
\* than it has changes.
C22_SearchDebounced ==
    [][\A t \in Terms :
          (/\ handleSearchChange(t)
           /\ NothingResolvedYet
           /\ lastEvent.kind = "issue") => Issued = {}]_vars

\* C24 (as claimed): when a response has been applied and all fetches have
\* resolved, the result list holds only records of responses to the current
\* search term.
C24_ListOfCurrentTerm ==
    (inflight = {} /\ lastEvent.kind = "success") =>
        \A k \in DOMAIN artworks : artworks[k].query = searchTerm

\* C25 (as claimed, over the fixed catalog): with no fetch in flight the
\* page cursor is the number of the last page merged into the result list.
C25_CursorIsLastPage ==
    (inflight = {} /\ artworks # <<>>) => page = artworks[Len(artworks)].page

\* C26 (as claimed): when the request issued last has succeeded (it is no
\* longer in flight and no failure was recorded since it left) and an older
\* request is the last to resolve, failing, the error message is still
\* empty once everything has resolved.
C26_OlderFailureLeavesNoError ==
    [][\A r \in Resolved :
          (/\ fetchArtworksFailure(r)
           /\ r.rid < issued
           /\ inflight = {r}
           /\ error = "") => error' = ""]_vars

\* C27 (as claimed): when a detail response has been applied and all detail
\* requests have resolved, the artwork held by the view is the one of the
\* current route identifier.
C27_HeldArtworkIsOfRoute ==
    (detailInflight = {} /\ detailEvent.kind = "success") =>
        detailArtwork.id = routeId

\* C28 (as claimed): while no add, remove or reload has been called after a
\* start over a well-formed non-empty stored collection, the stored value
\* is the one the store started with.
C28_InitializationKeepsStorage ==
    (/\ lastOp.op = "init"
     /\ prev.storage.present
     /\ prev.storage.text \in WellFormedTexts
     /\ prev.storage.text # JSONstringify(JsArray(<<>>)))
        => storage = prev.storage

(***************************************************************************)
(* Properties of the favorite buttons.                                     *)
(***************************************************************************)
\* C23: a click on a favorite button negates the membership of the
\* artwork's id, for the card's button and the detail view's button and
\* for every collection, also one holding several entries with that id.
C23_ClickTogglesMembership ==
    [][/\ \A a \in Artwork :
             ArtworkCard_handleFavoriteClick(a)
                 => (HasId(favorites'.items, a.id) = ~isFavorite(a.id))
       /\ ArtworkDetail_handleFavoriteClick
             => (HasId(favorites'.items, detailArtwork.id)
                    = ~isFavorite(detailArtwork.id))]_vars

\* C23 witness: an artwork that a click appended to a full stored
\* collection has been clicked again and is no favorite any more.
C23_Witness ==
    /\ lastOp.op = "remove"
    /\ Len(prev.favorites.items) = MaxStored + 1
    /\ prev.favorites.items[MaxStored + 1].id = lastOp.art.id
    /\ ~isFavorite(lastOp.art.id)

\* C29: when the collection started without duplicate ids and changes only
\* through the favorite buttons, no id occurs twice in it.
C29_ButtonsKeepIdsUnique ==
    wellFormedStart =>
        Cardinality({ favorites.items[k].id : k \in DOMAIN favorites.items })
            = Len(favorites.items)

\* C29 witness: the detail view's button was clicked for an artwork whose
\* favorite entry is the record of a card, and the click removed the entry.
C29_Witness ==
    /\ wellFormedStart
    /\ routeId # 0
    /\ lastOp.op = "remove"
    /\ lastOp.art.id = detailArtwork.id
    /\ \E k \in DOMAIN prev.favorites.items :
          /\ prev.favorites.items[k].id = detailArtwork.id
          /\ prev.favorites.items[k] # detailArtwork
    /\ ~isFavorite(detailArtwork.id)
=============================================================================
